---- MODULE Spec2Model ----
(***************************************************************************)
(* Model of metadata-ingestion/src/datahub/ingestion/source/openapi.py:    *)
(* APISource.get_workunits_internal (the crawl over the endpoints of an    *)
(* OpenAPI specification), APISource.init_dataset (dataset-name            *)
(* derivation) and APISource.report_bad_response.                          *)
(*                                                                         *)
(* Strings are sequences of one-character strings, so that slicing,        *)
(* replacing and membership of a character are computed as Python does.    *)
(***************************************************************************)
EXTENDS Integers, Sequences, FiniteSets, TLC

\* ------------------------------------------------------------------ bounds
\* longest path template of the name-derivation specification
MaxLen == 4
\* most endpoints in one specification document
MaxEndpoints == 2

\* characters of the path templates of the name-derivation specification
NameChars == {"/", "a", "."}

\* -------------------------------------------------------- string helpers
\* s[1:]
DropFirst(s) == IF Len(s) = 0 THEN <<>> ELSE Tail(s)

\* s[:-1]
DropLast(s) == IF Len(s) = 0 THEN <<>> ELSE SubSeq(s, 1, Len(s) - 1)

\* s.replace("/", ".")
ReplaceSlash(s) == [i \in 1..Len(s) |-> IF s[i] = "/" THEN "." ELSE s[i]]

\* c in s
HasChar(s, c) == \E i \in 1..Len(s) : s[i] = c

ROOT == <<"r", "o", "o", "t">>

\* init_dataset, lines 162-168: the dataset name of an endpoint key
deriveName(endpoint_k) ==
    LET dataset_name == ReplaceSlash(DropFirst(endpoint_k))
    IN  IF Len(dataset_name) > 0
        THEN IF dataset_name[Len(dataset_name)] = "."
             THEN DropLast(dataset_name)
             ELSE dataset_name
        ELSE ROOT

\* all strings over cs of length at most n
Strings(cs, n) == UNION {[1..k -> cs] : k \in 0..n}

\* ------------------------------------------------------------ the crawl
VARIABLES
    token,                \* config.token: "None", "" or a token
    get_token,            \* config.get_token: the token descriptor
    ignore_endpoints,     \* config.ignore_endpoints
    forced_examples,      \* config.forced_examples: path template -> attribute list
    url_endpoints,        \* keys of get_endpoints(specification), in its order
    warn_c,               \* warnings get_endpoints raised, each split at " --- "
    pc,                   \* position of the generator get_workunits_internal
    idx,                  \* position of the for loop in url_endpoints
    error,                \* the exception that ended the generator, or "none"
    root_dataset_samples, \* dataset name -> sample of the listing endpoint
    report,               \* self.report: the (key, reason) warnings, in order
    emitted,              \* the work units yielded so far, in order
    cur,                  \* the last loop iteration: endpoint, details, outcome
    swagger,              \* the calls get_swagger has made: get_tok, get_swag_json
    requested,            \* how many work units the consumer has asked for
    tmpl,                 \* name derivation: the path template
    dataset_name,         \* name derivation: init_dataset's dataset name
    rederived,            \* name derivation: the name derived from the name
    npc                   \* name derivation: position

vars == <<token, get_token, ignore_endpoints, forced_examples, url_endpoints,
          warn_c, pc, idx, error, root_dataset_samples, report, emitted, cur,
          swagger, requested, tmpl, dataset_name, rederived, npc>>

config == <<token, get_token, ignore_endpoints, forced_examples, url_endpoints,
            warn_c>>
nameVars == <<tmpl, dataset_name, rederived, npc>>
calls == <<swagger, requested>>
crawlVars == <<pc, idx, error, root_dataset_samples, report, emitted, cur,
               swagger, requested>>

\* the path templates of the crawled specifications
P_a == <<"/", "a">>
P_as == <<"/", "a", "/">>
P_ai == <<"/", "a", "/", "{", "i", "}">>
Paths == {P_a, P_as, P_ai}

\* config.token: unset, the empty string, a token
Tokens == {"None", "", "tok"}

\* config.get_token = {}
NoGetToken == [configured |-> FALSE, request_type |-> "none", has_url |-> FALSE,
               url_complement |-> {}]

\* a config.get_token with this request_type and, when has_url, a
\* url_complement holding these placeholders
Descriptor(request_type, has_url, placeholders) ==
    [configured |-> TRUE, request_type |-> request_type, has_url |-> has_url,
     url_complement |-> placeholders]

\* the token descriptors of the configurations
GetTokens ==
    {NoGetToken,
     Descriptor("get", TRUE, {"{username}", "{password}"}),
     Descriptor("get", TRUE, {"{username}"}),
     Descriptor("get", TRUE, {"{password}"}),
     Descriptor("post", TRUE, {}),
     Descriptor("post", FALSE, {}),
     Descriptor("put", TRUE, {"{username}", "{password}"})}

\* get_swagger has called nothing yet
NoCalls == [get_tok |-> "none", get_swag_json |-> "none"]

\* endpoint_dets.get("schema"): absent, {"AnyValue": ...}, a schema the
\* extractor gets fields from, a schema it gets nothing from, a schema marked
\* AnyValue that lists properties all the same
Schemas == {"none", "AnyValue", "declared", "declared_empty", "AnyValue_fields"}

\* the attribute list of a forced example
ForcedAttrs == <<"4">>

\* response bodies of a 200: an empty listing, or objects with this id value
Bodies == {"empty", "1", "2"}

\* lines 143-149: the status codes report_bad_response has a reason for
BadCodes == {400, 403, 404, 500, 504}

\* status codes a fetch returns
StatusCodes == {200, 201, 204, 401} \cup BadCodes

\* sequences of distinct path templates, at most n long
RECURSIVE DistinctSeqs(_, _)
DistinctSeqs(S, n) ==
    IF n = 0 THEN {<<>>}
    ELSE {<<>>} \cup UNION {{<<x>> \o t : t \in DistinctSeqs(S \ {x}, n - 1)} : x \in S}

Keys(eps) == {eps[i] : i \in 1..Len(eps)}

NoCur == [k |-> <<>>, schema |-> "none", data |-> FALSE, branch |-> "none",
          url |-> <<>>, cred |-> "none", status |-> 0, body |-> "none",
          requests |-> 0]

\* the warnings get_endpoints can raise for a specification with these paths:
\* none, one "reason --- key" for a path of the specification, or one
\* message without the separator
WarningsOf(eps) ==
    {<<>>, << <<"enum">> >>} \cup {<< <<"enum", k>> >> : k \in Keys(eps)}

\* the dataset names of the crawled path templates
DatasetNames == {deriveName(p) : p \in Paths}

\* line 224: root_dataset_samples = {}
EmptySamples == [n \in DatasetNames |-> "absent"]

Init ==
    /\ token \in Tokens
    /\ get_token \in IF token = "None" THEN GetTokens
                     ELSE {NoGetToken, Descriptor("put", TRUE, {})}
    /\ swagger = NoCalls
    /\ requested = 0
    /\ url_endpoints \in DistinctSeqs(Paths, MaxEndpoints) \ {<<>>}
    /\ ignore_endpoints \in {{}} \cup {{k} : k \in Keys(url_endpoints)}
    /\ forced_examples \in
         {{}} \cup {{[k |-> p, attrs |-> ForcedAttrs]} :
                      p \in {q \in Keys(url_endpoints) : HasChar(q, "{")}}
    /\ warn_c \in WarningsOf(url_endpoints)
    /\ pc = "start"
    /\ idx = 1
    /\ error = "none"
    /\ root_dataset_samples = EmptySamples
    /\ report = <<>>
    /\ emitted = <<>>
    /\ cur = NoCur
    /\ tmpl = <<>>
    /\ dataset_name = <<>>
    /\ rederived = <<>>
    /\ npc = "off"

\* ------------------------------------------------- helpers of the crawl
\* lines 218-221: each recorded warning is split at " --- " into reason and
\* key and reported; a message with fewer than two parts does not unpack
RECURSIVE ReportWarnings(_, _)
ReportWarnings(rep, ws) ==
    IF Len(ws) = 0 THEN [report |-> rep, raised |-> FALSE]
    ELSE IF Len(Head(ws)) < 2 THEN [report |-> rep, raised |-> TRUE]
    ELSE ReportWarnings(Append(rep, [key |-> Head(ws)[2], reason |-> Head(ws)[1]]),
                        Tail(ws))

\* a plausible slip: 404 is missing from the mapping
codes_mapping_Without404 ==
    (400 :> "Unknown error for reaching endpoint")
    @@ (403 :> "Not authorised to get endpoint")
    @@ (500 :> "Server error for reaching endpoint")
    @@ (504 :> "Timeout for reaching endpoint")

\* a plausible slip: an undocumented code is given a reason
codes_mapping_With401 ==
    (400 :> "Unknown error for reaching endpoint")
    @@ (401 :> "Not authenticated")
    @@ (403 :> "Not authorised to get endpoint")
    @@ (404 :> "Unable to find an example for endpoint. Please add it to the list of forced examples.")
    @@ (500 :> "Server error for reaching endpoint")
    @@ (504 :> "Timeout for reaching endpoint")

\* lines 143-149
codes_mapping ==
    (400 :> "Unknown error for reaching endpoint")
    @@ (403 :> "Not authorised to get endpoint")
    @@ (404 :> "Unable to find an example for endpoint. Please add it to the list of forced examples.")
    @@ (500 :> "Server error for reaching endpoint")
    @@ (504 :> "Timeout for reaching endpoint")

\* lines 151-155: report_bad_response raises when the code has no reason
BadResponseRaises(status_code) == status_code \notin DOMAIN codes_mapping

\* lines 142-155: the report after report_bad_response returns; the reason is
\* looked up and the report is not written
report_bad_response(rep, status_code, key) == rep

\* lines 262-267, 285-290, 310-315: `if config.token:` picks the credential
Credential == IF token \notin {"None", ""} THEN "bearer" ELSE "basic"

\* line 228
Ignored(endpoint_k) == endpoint_k \in ignore_endpoints

\* a plausible slip: the forced examples are not consulted
HasForcedExample_Never(endpoint_k) == FALSE

\* line 281: endpoint_k in config.forced_examples.keys()
HasForcedExample(endpoint_k) == \E e \in forced_examples : e.k = endpoint_k

\* config.forced_examples[endpoint_k]
ForcedExample(endpoint_k) == (CHOOSE e \in forced_examples : e.k = endpoint_k).attrs

\* position of the first c in s, or 0
RECURSIVE IndexFrom(_, _, _)
IndexFrom(s, c, i) ==
    IF i > Len(s) THEN 0 ELSE IF s[i] = c THEN i ELSE IndexFrom(s, c, i + 1)

\* s with its first {...} placeholder replaced by v; s when it has none
FillFirst(s, v) ==
    LET o == IndexFrom(s, "{", 1)
        c == IndexFrom(s, "}", 1)
    IN  IF o = 0 \/ c < o THEN s
        ELSE SubSeq(s, 1, o - 1) \o v \o SubSeq(s, c + 1, Len(s))

\* compose_url_attr(raw_url, attr_list): the attribute values replace the
\* placeholders in order
RECURSIVE compose_url_attr(_, _)
compose_url_attr(raw_url, attr_list) ==
    IF Len(attr_list) = 0 THEN raw_url
    ELSE compose_url_attr(FillFirst(raw_url, <<Head(attr_list)>>), Tail(attr_list))

\* the dataset whose sample informs a parameterized path: the name of the
\* path before its first placeholder
Ancestor(endpoint_k) ==
    deriveName(SubSeq(endpoint_k, 1, IndexFrom(endpoint_k, "{", 1) - 1))

\* try_guessing finds a sample to fill the placeholder from
Qualifies(endpoint_k, samples) ==
    /\ Ancestor(endpoint_k) \in DOMAIN samples
    /\ samples[Ancestor(endpoint_k)] \notin {"absent", "empty"}

\* try_guessing(endpoint_k, root_dataset_samples), when a sample qualifies
try_guessing(endpoint_k, samples) ==
    FillFirst(endpoint_k, <<samples[Ancestor(endpoint_k)]>>)

\* extract_fields(response, dataset_name): the fields and the representative
\* element of the body; an empty listing has neither
extract_fields(body) ==
    [fields2add |-> IF body = "empty" THEN "empty" ELSE "response", sample |-> body]

\* a plausible slip: the test of the field list is inverted
ReportNoFields_Inverted(rep, fields2add, key) ==
    IF fields2add # "empty"
    THEN Append(rep, [key |-> key, reason |-> "No Fields"])
    ELSE rep

\* lines 272-273, 293-296, 318-321: if not fields2add: report_warning(...)
ReportNoFields(rep, fields2add, key) ==
    IF fields2add = "empty"
    THEN Append(rep, [key |-> key, reason |-> "No Fields"])
    ELSE rep

\* a plausible slip: the work unit is put before the earlier ones
Yield_First(units, unit) == <<unit>> \o units

\* lines 249, 256, 277, 300, 325: yield self.build_wu(...)
Yield(units, unit) == Append(units, unit)

\* lines 201-205 with set_metadata: the work unit of an endpoint
build_wu(endpoint_k, fields) ==
    [key |-> endpoint_k, id |-> deriveName(endpoint_k), fields |-> fields]

\* a plausible slip: a timeout is tried again
RequestCalls_RetryOnTimeout(status_code) == IF status_code = 504 THEN 2 ELSE 1

\* lines 262-267, 285-290, 310-315: how often request_call is called for an
\* endpoint, whatever the response
RequestCalls(status_code) == 1

\* a plausible slip: every fetched sample is kept
KeepsSample_Always(branch) == TRUE

\* lines 269, 292, 317: only the branch of the paths without a parameter
\* assigns the sample to root_dataset_samples[dataset_name]
KeepsSample(branch) == branch = "concrete"

\* a plausible slip: every 2xx code is taken for a success
IsSuccess_Any2xx(status_code) == status_code \in 200..299

\* lines 268, 291, 316: response.status_code == 200
IsSuccess(status_code) == status_code = 200

\* a plausible slip: the schema is not tested for AnyValue
UsesDeclaredSchema_NoAnyValueTest(schema) == schema # "none"

\* lines 236-239: the endpoint has a schema and the schema has no AnyValue
UsesDeclaredSchema(schema) ==
    schema # "none" /\ schema \notin {"AnyValue", "AnyValue_fields"}

\* lines 240-246: extract_metadata() gets metadata from the schema
ExtractsMetadata(schema) == schema \in {"declared", "AnyValue_fields"}

\* lines 236-246: the endpoint is served from its declared schema
DeclaredYields(schema) == UsesDeclaredSchema(schema) /\ ExtractsMetadata(schema)

\* the schemas with which an endpoint gets past lines 236-250
FallsThrough == {schema \in Schemas : ~DeclaredYields(schema)}

\* a plausible slip: the url of a "get" is not tested for {password}
TokenConfigError_NoPasswordTest(gt) ==
    IF ~gt.has_url THEN "AssertionError"
    ELSE IF gt.request_type = "get"
    THEN IF "{username}" \notin gt.url_complement THEN "AssertionError" ELSE "none"
    ELSE IF gt.request_type = "post" THEN "none"
    ELSE "KeyError(get_token)"

\* lines 64-83: what get_swagger raises for a token descriptor before it
\* asks for the token, or "none"
TokenConfigError(gt) ==
    IF ~gt.has_url THEN "AssertionError"
    ELSE IF gt.request_type = "get"
    THEN IF "{username}" \notin gt.url_complement THEN "AssertionError"
         ELSE IF "{password}" \notin gt.url_complement THEN "AssertionError"
         ELSE "none"
    ELSE IF gt.request_type = "post" THEN "none"
    ELSE "KeyError(get_token)"

\* lines 59-102: the token get_swagger leaves in the configuration, the calls
\* it made (which request got the token, with which credential the
\* specification was loaded) and the error it raised
get_swagger ==
    IF get_token.configured \/ token # "None"
    THEN IF token # "None"
         THEN [token |-> token, error |-> "none",
               calls |-> [get_tok |-> "none", get_swag_json |-> "token"]]
         ELSE IF TokenConfigError(get_token) # "none"
         THEN [token |-> token, error |-> TokenConfigError(get_token),
               calls |-> NoCalls]
         ELSE [token |-> "acquired", error |-> "none",
               calls |-> [get_tok |-> get_token.request_type,
                          get_swag_json |-> "token"]]
    ELSE [token |-> token, error |-> "none",
          calls |-> [get_tok |-> "none", get_swag_json |-> "basic"]]

\* a plausible slip: the work units are collected, the function runs through
AfterYield_RunsOn == "loop"

\* lines 249, 256, 277, 300, 325: at a yield the generator waits for the
\* consumer
AfterYield == "yielded"

\* ------------------------------------------------- actions of the crawl
\* the endpoint the for loop is at
K == url_endpoints[idx]

InLoop == pc = "loop" /\ idx <= Len(url_endpoints)

\* lines 208-221: the specification is loaded, its endpoints enumerated and
\* the warnings of the enumeration reported
Start ==
    /\ pc = "start"
    /\ requested' = requested + 1
    /\ LET sw == get_swagger
           r == ReportWarnings(report, warn_c)
       IN  /\ token' = sw.token
           /\ swagger' = sw.calls
           /\ IF sw.error # "none"
              THEN /\ pc' = "aborted"
                   /\ error' = sw.error
                   /\ report' = report
              ELSE /\ report' = r.report
                   /\ pc' = IF r.raised THEN "aborted" ELSE "loop"
                   /\ error' = IF r.raised THEN "ValueError" ELSE error
    /\ UNCHANGED <<idx, root_dataset_samples, emitted, cur>>
    /\ UNCHANGED <<get_token, ignore_endpoints, forced_examples, url_endpoints, warn_c>>
    /\ UNCHANGED nameVars

\* lines 228-229
SkipIgnored ==
    /\ InLoop
    /\ Ignored(K)
    /\ cur' = [NoCur EXCEPT !.k = K, !.branch = "ignored"]
    /\ idx' = idx + 1
    /\ UNCHANGED <<pc, error, root_dataset_samples, report, emitted>>
    /\ UNCHANGED config
    /\ UNCHANGED calls
    /\ UNCHANGED nameVars

\* lines 236-250: a declared schema the extractor gets metadata from; the
\* fields of the work unit are set from endpoint_dets["data"]
EmitDeclared ==
    /\ InLoop
    /\ ~Ignored(K)
    /\ \E schema \in Schemas \ FallsThrough, data \in BOOLEAN :
         /\ cur' = [NoCur EXCEPT !.k = K, !.schema = schema, !.data = data,
                                 !.branch = "declared"]
         /\ IF data
            THEN /\ emitted' = Yield(emitted, build_wu(K, "data"))
                 /\ pc' = AfterYield
                 /\ idx' = idx + 1
                 /\ error' = error
            ELSE /\ pc' = "aborted"
                 /\ error' = "KeyError"
                 /\ UNCHANGED <<emitted, idx>>
    /\ UNCHANGED <<root_dataset_samples, report>>
    /\ UNCHANGED config
    /\ UNCHANGED calls
    /\ UNCHANGED nameVars

\* lines 252-256: data is defined in the specification for this endpoint
EmitInline ==
    /\ InLoop
    /\ ~Ignored(K)
    /\ \E schema \in FallsThrough :
         cur' = [NoCur EXCEPT !.k = K, !.schema = schema, !.data = TRUE,
                              !.branch = "inline"]
    /\ emitted' = Yield(emitted, build_wu(K, "data"))
    /\ pc' = AfterYield
    /\ idx' = idx + 1
    /\ UNCHANGED <<error, root_dataset_samples, report>>
    /\ UNCHANGED config
    /\ UNCHANGED calls
    /\ UNCHANGED nameVars

\* lines 262-279, 285-302, 310-327: the request and what follows its
\* response; seeds is TRUE where the sample is kept (line 269)
Fetch(c, status, body, seeds) ==
    /\ cur' = [c EXCEPT !.cred = Credential, !.status = status, !.body = body,
                        !.requests = RequestCalls(status)]
    /\ IF IsSuccess(status)
       THEN LET ef == extract_fields(body)
            IN  /\ root_dataset_samples' =
                     IF seeds
                     THEN [root_dataset_samples EXCEPT ![deriveName(K)] = ef.sample]
                     ELSE root_dataset_samples
                /\ report' = ReportNoFields(report, ef.fields2add, K)
                /\ emitted' = Yield(emitted, build_wu(K, ef.fields2add))
                /\ pc' = AfterYield
                /\ idx' = idx + 1
                /\ error' = error
       ELSE IF BadResponseRaises(status)
       THEN /\ pc' = "aborted"
            /\ error' = "Exception"
            /\ UNCHANGED <<idx, root_dataset_samples, report, emitted>>
       ELSE /\ report' = report_bad_response(report, status, K)
            /\ pc' = "loop"
            /\ idx' = idx + 1
            /\ UNCHANGED <<error, root_dataset_samples, emitted>>

\* a response: a status code, and a body when the code is 200
Responses == {<<200, b>> : b \in Bodies} \cup {<<s, "none">> : s \in StatusCodes \ {200}}

\* lines 257-279: the path has no parameter
FetchConcrete ==
    /\ InLoop
    /\ ~Ignored(K)
    /\ ~HasChar(K, "{")
    /\ \E schema \in FallsThrough, r \in Responses :
         Fetch([NoCur EXCEPT !.k = K, !.schema = schema, !.branch = "concrete",
                             !.url = K],
               r[1], r[2], KeepsSample("concrete"))
    /\ UNCHANGED config
    /\ UNCHANGED calls
    /\ UNCHANGED nameVars

\* lines 281-302: no forced example, the parameters are guessed from the
\* samples. Without a qualifying sample the resolver either fails, and
\* nothing catches that, or hands back the path with its placeholder, and
\* that is requested.
FetchGuessed ==
    /\ InLoop
    /\ ~Ignored(K)
    /\ HasChar(K, "{")
    /\ ~HasForcedExample(K)
    /\ \E schema \in FallsThrough :
         LET c == [NoCur EXCEPT !.k = K, !.schema = schema, !.branch = "guessed"]
         IN  IF Qualifies(K, root_dataset_samples)
             THEN \E r \in Responses :
                    Fetch([c EXCEPT !.url = try_guessing(K, root_dataset_samples)],
                          r[1], r[2], KeepsSample("guessed"))
             ELSE \/ /\ cur' = c
                     /\ pc' = "aborted"
                     /\ error' = "UnresolvableParameterError"
                     /\ UNCHANGED <<idx, root_dataset_samples, report, emitted>>
                  \/ \E r \in Responses :
                       Fetch([c EXCEPT !.url = K], r[1], r[2], KeepsSample("guessed"))
    /\ UNCHANGED config
    /\ UNCHANGED calls
    /\ UNCHANGED nameVars

\* lines 303-327: the forced example fills the parameters
FetchForced ==
    /\ InLoop
    /\ ~Ignored(K)
    /\ HasChar(K, "{")
    /\ HasForcedExample(K)
    /\ \E schema \in FallsThrough, r \in Responses :
         Fetch([NoCur EXCEPT !.k = K, !.schema = schema, !.branch = "forced",
                             !.url = compose_url_attr(K, ForcedExample(K))],
               r[1], r[2], KeepsSample("forced"))
    /\ UNCHANGED config
    /\ UNCHANGED calls
    /\ UNCHANGED nameVars

\* the consumer asks for the next work unit: the generator runs on
Resume ==
    /\ pc = "yielded"
    /\ pc' = "loop"
    /\ UNCHANGED <<idx, error, root_dataset_samples, report, emitted, cur>>
    /\ UNCHANGED config
    /\ requested' = requested + 1
    /\ UNCHANGED swagger
    /\ UNCHANGED nameVars

\* the consumer stops asking: the generator is closed where it yielded
Close ==
    /\ pc = "yielded"
    /\ pc' = "closed"
    /\ UNCHANGED <<idx, error, root_dataset_samples, report, emitted, cur>>
    /\ UNCHANGED config
    /\ UNCHANGED calls
    /\ UNCHANGED nameVars

\* line 227: the loop is through
Finish ==
    /\ pc = "loop"
    /\ idx > Len(url_endpoints)
    /\ pc' = "done"
    /\ UNCHANGED <<idx, error, root_dataset_samples, report, emitted, cur>>
    /\ UNCHANGED config
    /\ UNCHANGED calls
    /\ UNCHANGED nameVars

Next ==
    \/ Start
    \/ SkipIgnored
    \/ EmitDeclared
    \/ EmitInline
    \/ FetchConcrete
    \/ FetchGuessed
    \/ FetchForced
    \/ Resume
    \/ Close
    \/ Finish

Spec == Init /\ [][Next]_vars

\* ------------------------------------------------ the name derivation
NameInit ==
    /\ tmpl \in Strings(NameChars, MaxLen)
    /\ get_token = NoGetToken
    /\ swagger = NoCalls
    /\ requested = 0
    /\ npc = "template"
    /\ dataset_name = <<>>
    /\ rederived = <<>>
    /\ token = "None"
    /\ ignore_endpoints = {}
    /\ forced_examples = {}
    /\ url_endpoints = <<>>
    /\ warn_c = <<>>
    /\ pc = "off"
    /\ idx = 1
    /\ error = "none"
    /\ root_dataset_samples = EmptySamples
    /\ report = <<>>
    /\ emitted = <<>>
    /\ cur = NoCur

\* lines 162-168 applied to a path template
InitDataset ==
    /\ npc = "template"
    /\ dataset_name' = deriveName(tmpl)
    /\ npc' = "derived"
    /\ UNCHANGED <<tmpl, rederived>>
    /\ UNCHANGED config
    /\ UNCHANGED crawlVars

\* lines 162-168 applied to the name they derived
ReDerive ==
    /\ npc = "derived"
    /\ rederived' = deriveName(dataset_name)
    /\ npc' = "rederived"
    /\ UNCHANGED <<tmpl, dataset_name>>
    /\ UNCHANGED config
    /\ UNCHANGED crawlVars

NameNext == InitDataset \/ ReDerive

SpecName == NameInit /\ [][NameNext]_vars

\* ----------------------------------------------------------- the claims
\* a loop iteration has just run
Iterated == cur' # cur

\* position of an endpoint key in the enumeration
Pos(k) == CHOOSE i \in 1..Len(url_endpoints) : url_endpoints[i] = k

InReport(key, reason) ==
    \E i \in 1..Len(report) : report[i] = [key |-> key, reason |-> reason]

\* C1: an endpoint whose fetch returned 400, 403, 404, 500 or 504 has a
\* warning in the report, keyed by the endpoint, with the reason documented
\* for that code.
C1_BadResponseWarned ==
    cur.status \in BadCodes => InReport(cur.k, codes_mapping[cur.status])

\* C2: a fetch that returns 400, 403, 404, 500 or 504 is local to its
\* endpoint: no record is emitted for it, the samples are left as they were,
\* and the loop goes on with the next endpoint of the enumeration, which is
\* the one every iteration works on.
C2_BadResponseIsLocal ==
    [][/\ Iterated => cur'.k = url_endpoints[idx]
       /\ (Iterated /\ cur'.status \in BadCodes) =>
            /\ emitted' = emitted
            /\ root_dataset_samples' = root_dataset_samples
            /\ pc' = "loop"
            /\ error' = "none"
            /\ idx' = idx + 1]_vars

\* C2: the first of two endpoints was fetched and skipped, and the second
\* one has been emitted all the same.
C2_Witness ==
    /\ Len(url_endpoints) = 2
    /\ ignore_endpoints = {}
    /\ Len(emitted) = 1
    /\ emitted[1].key = url_endpoints[2]
    /\ root_dataset_samples = EmptySamples

\* C3: a fetch that returns a status code other than 200, 400, 403, 404, 500
\* and 504 aborts the crawl with an error; from then on no endpoint is
\* processed or fetched and no record is emitted, and the records emitted
\* before are left as they were.
C3_UnexpectedStatusAborts ==
    [][/\ (Iterated /\ cur'.status \notin ({0, 200} \cup BadCodes)) =>
            /\ pc' = "aborted"
            /\ error' = "Exception"
            /\ emitted' = emitted
       /\ pc = "aborted" =>
            /\ pc' = "aborted"
            /\ cur' = cur
            /\ emitted' = emitted]_vars

\* C3: the crawl was aborted by an unexpected status code after a record
\* had been emitted.
C3_Witness ==
    /\ pc = "aborted"
    /\ error = "Exception"
    /\ cur.status \notin ({0, 200} \cup BadCodes)
    /\ Len(emitted) = 1

\* C4: an endpoint of the ignore-list appears neither in the output nor in
\* the warning report, the warnings of the enumeration included.
C4_IgnoredNeverReported ==
    \A k \in ignore_endpoints :
        /\ \A i \in 1..Len(emitted) : emitted[i].key # k
        /\ \A i \in 1..Len(report) : report[i].key # k

\* C5: a parameterized endpoint without a forced example, reached when no
\* sample qualifies for it, is skipped with a warning: nothing is fetched
\* and nothing emitted for it, and the loop goes on with the next endpoint.
C5_UnresolvableSkipped ==
    [][(/\ Iterated
        /\ cur'.branch = "guessed"
        /\ ~Qualifies(cur'.k, root_dataset_samples)) =>
            /\ cur'.status = 0
            /\ emitted' = emitted
            /\ Len(report') = Len(report) + 1
            /\ report'[Len(report')].key = cur'.k
            /\ pc' = "loop"
            /\ idx' = idx + 1]_vars

StartsWithSeparator(s) == Len(s) > 0 /\ s[1] = "/"

\* C6: deriving the dataset name of a derived dataset name gives the same
\* name, for every path template.
C6_Idempotent ==
    (npc = "rederived" /\ StartsWithSeparator(tmpl)) => rederived = dataset_name

\* s without its trailing delimiters
RECURSIVE StripDots(_)
StripDots(s) ==
    IF Len(s) > 0 /\ s[Len(s)] = "." THEN StripDots(DropLast(s)) ELSE s

\* the name as the data model describes it: the leading separator stripped,
\* the other separators replaced, no trailing delimiter, "root" when empty
DescribedName(x) ==
    LET stripped == IF StartsWithSeparator(x) THEN Tail(x) ELSE x
        name == StripDots(ReplaceSlash(stripped))
    IN  IF Len(name) = 0 THEN ROOT ELSE name

\* C7: the derived name of a path template is the template without its
\* leading separator, the other separators replaced by the delimiter, no
\* trailing delimiter left, "root" when that is empty; it is never empty.
C7_NameAsDescribed ==
    (npc # "template" /\ StartsWithSeparator(tmpl)) =>
        /\ dataset_name = DescribedName(tmpl)
        /\ dataset_name # <<>>

\* C8: the URL fetched for a parameterized endpoint that has a forced example
\* is the template filled with the attribute values of the example,
\* whatever the samples hold, and it is fetched on the forced-example
\* branch, never on the guessing one.
C8_ForcedUrlIgnoresSamples ==
    \A e \in forced_examples :
        (cur.k = e.k /\ HasChar(cur.k, "{") /\ cur.branch \notin {"ignored", "inline", "declared"}) =>
            /\ cur.branch = "forced"
            /\ cur.status # 0
            /\ cur.url = compose_url_attr(e.k, e.attrs)

\* C8: a forced example was fetched while the samples held a value the
\* guess would have used.
C8_Witness ==
    /\ cur.branch = "forced"
    /\ cur.status # 0
    /\ Qualifies(cur.k, root_dataset_samples)
    /\ cur.url # try_guessing(cur.k, root_dataset_samples)

\* C9: the records are emitted in the order of the enumeration, and no
\* endpoint has two of them.
C9_EmittedInOrder ==
    \A i, j \in 1..Len(emitted) :
        i < j =>
            /\ emitted[i].key \in Keys(url_endpoints)
            /\ emitted[j].key \in Keys(url_endpoints)
            /\ Pos(emitted[i].key) < Pos(emitted[j].key)

\* C9: two records have been emitted.
C9_Witness ==
    /\ Len(emitted) = 2
    /\ emitted[1].key = url_endpoints[1]
    /\ emitted[2].key = url_endpoints[2]

\* C10: a fetch that returns 200 emits the record of its endpoint; when the
\* field list is empty exactly one warning "No Fields" keyed by the endpoint
\* is appended to the report, and none when it is not empty.
C10_NoFieldsWarning ==
    [][(Iterated /\ cur'.status = 200) =>
         /\ Len(emitted') = Len(emitted) + 1
         /\ SubSeq(emitted', 1, Len(emitted)) = emitted
         /\ emitted'[Len(emitted')].key = cur'.k
         /\ IF emitted'[Len(emitted')].fields = "empty"
            THEN report' = Append(report, [key |-> cur'.k, reason |-> "No Fields"])
            ELSE report' = report]_vars

\* C10: a 200 with no fields was emitted and warned about.
C10_Witness ==
    /\ cur.status = 200
    /\ cur.body = "empty"
    /\ Len(emitted) > 0
    /\ emitted[Len(emitted)] = build_wu(cur.k, "empty")
    /\ Len(report) > 0
    /\ report[Len(report)] = [key |-> cur.k, reason |-> "No Fields"]

\* the errors get_swagger raises for a token descriptor
ConfigErrors == {"AssertionError", "KeyError(get_token)"}

\* the descriptors said to be refused: a method that is neither get nor post,
\* or a get whose url lacks {username} or {password}
RefusedDescriptor(gt) ==
    \/ gt.request_type \notin {"get", "post"}
    \/ /\ gt.request_type = "get"
       /\ \/ "{username}" \notin gt.url_complement
          \/ "{password}" \notin gt.url_complement

\* C11: without a pre-supplied token, a token descriptor whose method is
\* neither get nor post, or whose get url lacks {username} or {password},
\* makes get_swagger fail with a configuration error before any token
\* request, any load of the specification and any fetch; the token stays
\* unset.
C11_ConfigErrorBeforeAnyCall ==
    /\ [][(/\ pc = "start"
           /\ pc' # "start"
           /\ token = "None"
           /\ get_token.configured
           /\ RefusedDescriptor(get_token)) =>
               /\ pc' = "aborted"
               /\ error' \in ConfigErrors]_vars
    /\ [](error \in ConfigErrors =>
               /\ pc = "aborted"
               /\ swagger = NoCalls
               /\ token = "None"
               /\ cur = NoCur
               /\ report = <<>>
               /\ emitted = <<>>)

\* C11: get_swagger refused a get descriptor whose url has no {password}.
C11_Witness ==
    /\ pc = "aborted"
    /\ error = "AssertionError"
    /\ get_token.request_type = "get"
    /\ get_token.has_url
    /\ "{password}" \notin get_token.url_complement
    /\ swagger = NoCalls

\* a request went out in the last loop iteration
Requested(c) == c.status # 0

\* C12: an endpoint whose schema is marked AnyValue is never served from the
\* declared schema: it goes on to sampling, from the inlined sample when it
\* has one, and else on one of the fetching branches, where the URL is
\* requested unless resolving it failed.
C12_AnyValueFallsThrough ==
    cur.schema \in {"AnyValue", "AnyValue_fields"} =>
        /\ cur.branch \in {"inline", "concrete", "guessed", "forced"}
        /\ cur.branch = "inline" <=> cur.data
        /\ cur.branch = "inline" => ~Requested(cur)
        /\ cur.branch # "inline" =>
             Requested(cur) \/ error = "UnresolvableParameterError"

\* C12: an endpoint marked AnyValue, whose schema lists properties, was
\* fetched.
C12_Witness ==
    /\ cur.schema = "AnyValue_fields"
    /\ cur.branch = "concrete"
    /\ cur.status = 200
    /\ Len(emitted) > 0
    /\ emitted[Len(emitted)].fields = "response"

\* the 2xx status codes other than 200
OtherSuccessCodes == 201..299

\* C13 as claimed: a fetch that returns a 2xx status code other than 200 is
\* handled as a success and does not abort the crawl.
C13_Other2xxIsSuccess ==
    [][(Iterated /\ cur'.status \in OtherSuccessCodes) =>
         /\ pc' # "aborted"
         /\ error' = "none"]_vars

\* C13 as amended: a fetch that returns a 2xx status code other than 200 is
\* handled like any unexpected code: nothing is emitted or reported for the
\* endpoint, the samples stay, and the crawl is aborted with an error.
C13_Other2xxAborts ==
    [][(Iterated /\ cur'.status \in OtherSuccessCodes) =>
         /\ pc' = "aborted"
         /\ error' = "Exception"
         /\ report' = report
         /\ root_dataset_samples' = root_dataset_samples
         /\ Len(emitted') = Len(emitted)]_vars

\* C13: a 204 aborted the crawl at its second endpoint.
C13_Witness ==
    /\ cur.status = 204
    /\ pc = "aborted"
    /\ error = "Exception"
    /\ idx = 2

\* C14: the samples start empty; an entry is written only by the loop
\* iteration of a non-ignored endpoint without a parameter that was fetched
\* and returned 200, and only the entry of that endpoint's dataset name; so
\* every entry belongs to the dataset name of such an endpoint that the loop
\* has reached.
C14_SamplesOnlyFromListings ==
    /\ root_dataset_samples = EmptySamples
    /\ [][root_dataset_samples' # root_dataset_samples =>
            /\ Iterated
            /\ cur'.k = url_endpoints[idx]
            /\ cur'.k \notin ignore_endpoints
            /\ ~HasChar(cur'.k, "{")
            /\ cur'.branch = "concrete"
            /\ cur'.status = 200
            /\ \A n \in DOMAIN root_dataset_samples :
                 n # deriveName(cur'.k) =>
                    root_dataset_samples'[n] = root_dataset_samples[n]]_vars
    /\ [](\A n \in DOMAIN root_dataset_samples :
            root_dataset_samples[n] # "absent" =>
                \E i \in 1..Len(url_endpoints) :
                    /\ i < idx
                    /\ deriveName(url_endpoints[i]) = n
                    /\ ~HasChar(url_endpoints[i], "{")
                    /\ url_endpoints[i] \notin ignore_endpoints)

\* C14: a guessed fetch returned 200 with another sample, and the entry of
\* the listing endpoint is the one the listing gave.
C14_Witness ==
    /\ cur.branch = "guessed"
    /\ cur.status = 200
    /\ cur.body = "2"
    /\ root_dataset_samples[<<"a">>] = "1"
    /\ root_dataset_samples[deriveName(cur.k)] = "absent"

\* C15: an endpoint with a declared schema (not AnyValue) the extractor gets
\* metadata from is emitted, with or without an inlined sample, and the
\* fields of its record are those of the declared schema.
C15_DeclaredFieldsEmitted ==
    DeclaredYields(cur.schema) =>
        /\ error = "none"
        /\ Len(emitted) > 0
        /\ emitted[Len(emitted)] = build_wu(cur.k, "schema")

\* C16: every loop iteration works on the endpoint the loop is at and the
\* loop then leaves it; an endpoint served from its declared schema or its
\* inlined sample, and an ignored one, is not fetched; an endpoint is fetched
\* only when it is not ignored and has neither a schema the extractor gets
\* metadata from nor an inlined sample, and then with one request.
C16_FetchedOnlyWhenNeededOnce ==
    [][Iterated =>
         /\ cur'.k = url_endpoints[idx]
         /\ idx' = idx + 1 \/ pc' = "aborted"
         /\ Requested(cur') <=> cur'.requests > 0
         /\ cur'.branch \in {"declared", "inline", "ignored"} => cur'.requests = 0
         /\ cur'.k \in ignore_endpoints => cur'.requests = 0
         /\ (Len(emitted') > Len(emitted) /\ emitted'[Len(emitted')].fields = "data")
               => cur'.requests = 0
         /\ cur'.requests > 0 =>
              /\ cur'.requests = 1
              /\ ~DeclaredYields(cur'.schema)
              /\ ~cur'.data
              /\ cur'.k \notin ignore_endpoints]_vars

\* C16: the first endpoint was emitted from its inlined sample, the second
\* one was requested once, timed out, and the loop went on.
C16_Witness ==
    /\ Len(url_endpoints) = 2
    /\ Len(emitted) = 1
    /\ emitted[1].fields = "data"
    /\ cur.k = url_endpoints[2]
    /\ cur.status = 504
    /\ cur.requests = 1
    /\ pc = "loop"

\* C17: once the specification is loaded, the warnings of the enumeration
\* never end the crawl: each of them, whatever its text, becomes one entry
\* of the report, and the loop over the endpoints begins.
C17_WarningsNeverAbort ==
    [][(pc = "start" /\ pc' # "start" /\ error' \notin ConfigErrors) =>
         /\ pc' = "loop"
         /\ error' = "none"
         /\ Len(report') = Len(warn_c)]_vars

\* C18: the generator works only for a consumer that has asked for one more
\* work unit than it has received: a loop iteration, a write to the samples,
\* a warning or a new work unit happens only then; and once the consumer has
\* stopped asking after a work unit, nothing is fetched, written, reported
\* or emitted any more.
C18_NoWorkUnasked ==
    [][/\ (\/ Iterated
           \/ root_dataset_samples' # root_dataset_samples
           \/ report' # report
           \/ emitted' # emitted) =>
             /\ requested' > Len(emitted)
             /\ pc \notin {"yielded", "closed"}
       /\ pc = "closed" =>
             /\ pc' = "closed"
             /\ idx' = idx
             /\ requested' = requested]_vars

\* C18: the consumer stopped after the work unit of the first of two
\* endpoints; the second one was never worked on.
C18_Witness ==
    /\ pc = "closed"
    /\ Len(url_endpoints) = 2
    /\ Len(emitted) = 1
    /\ requested = 1
    /\ idx = 2
    /\ cur.k = url_endpoints[1]
    /\ url_endpoints[2] \notin ignore_endpoints

\* C19: every endpoint fetch carries exactly one of bearer token and basic
\* auth, and the bearer token exactly when get_swagger loaded the
\* specification with a token.
C19_CredentialAsLoaded ==
    Requested(cur) =>
        /\ cur.cred \in {"bearer", "basic"}
        /\ cur.cred = "bearer" <=> swagger.get_swag_json = "token"

\* C20: dataset names identify endpoints: no two work units emitted in one
\* crawl for distinct path templates carry the same dataset name.
C20_NamesIdentifyEndpoints ==
    \A i, j \in 1..Len(emitted) :
        emitted[i].id = emitted[j].id => emitted[i].key = emitted[j].key

====
